---- MODULE Spec2Model ----
(***************************************************************************)
(* Model of crates/node-maintainer/src/linkers/mod.rs: the Linker facade   *)
(* (rebuild, link_bins, run_scripts, prune, extract), the reflink probe    *)
(* supports_reflink and the bin linker link_bin.                           *)
(*                                                                         *)
(* One linker run is a record; every step of the code is an operator from  *)
(* a run record to the next one.  The state holds the run under study, lk, *)
(* and twin: the same linker built without the two script callbacks and    *)
(* driven by the same schedule and the same outcomes of the environment.   *)
(***************************************************************************)
EXTENDS Integers, FiniteSets, Sequences, TLC

\* ---- bounds of the model ------------------------------------------------
NumNodes == 2          \* nodes of the graph: 0 .. NumNodes-1
MaxConcurrency == 2    \* opts.script_concurrency ranges over 0 .. MaxConcurrency
NumDirs == 2           \* directories supports_reflink is tried on: 1 .. NumDirs
NumNames == 2          \* names tempfile can pick for a temporary entry

\* ---- the graph and the options -----------------------------------------
Nodes == 0 .. (NumNodes - 1)
GraphRoot == 0                       \* graph.root
Kinds == {"Isolated", "Hoisted", "Null"}
Events == {"preinstall", "install", "postinstall"}
Parts == {"stdout", "stderr", "wait"}   \* the three futures of try_join!

NoError == [kind |-> "none"]

\* The graph taken: node n depends on node n + 1, so from a node there is a
\* path to every node of higher index (has_path_connecting(graph, a, b)).
has_path_connecting(a, b) == a < b

\* (pkg_dir, workspace_path) of a node, lines 157-167
pkg_dir(L, idx) ==
    IF idx = GraphRoot THEN <<"root">> ELSE <<"package_dir", L.kind, idx>>

\* pkg_dir.join("package.json")
manifest_path(L, idx) == Append(pkg_dir(L, idx), "package.json")

\* graph.is_optional(idx), line 169
is_optional(L, idx) == idx \in L.optional

\* ---- one linker run -----------------------------------------------------
\* task[n]: the future of node n in the current run_scripts: "unpolled" (the
\* stream has not yielded n), "spawning" (awaiting the spawn), "running"
\* (awaiting try_join!, joined[n] holding the futures that have returned),
\* "done" (returned Ok), "failed" (returned Err), "dropped".
\* detached: blocking tasks of the current event that no future awaits any
\* more: <<n, "spawn">> a spawn, <<n, "script">> a script with a drain or the
\* wait still running.  stale: some script of an earlier step is in that state.
\* manifestReads, spawned, swallowed, startCalls, lineCalled record what the
\* current run_scripts has done: manifests read, scripts spawned, errors of
\* optional nodes swallowed (<<n, "spawn">>, or <<n, "script">> for an error
\* of try_join!), on_script_start invoked, a drain run with on_script_line.
\* mani[n]: what the read of n's manifest found in the current run_scripts.
\* started[n]: how many times the closure of line 156 was started for n in
\* the current run_scripts.
\* steps: the steps rebuild has called, in order; returned: what each step
\* that has returned returned.  linked: the count the last link_bins returned,
\* until rebuild calls its next step.  last: the last prune or extract call
\* and what it returned.
\* budget: how many times the caller calls rebuild on a strategy linker;
\* calls: how many times it has.  prior: the scripts of the last event of the
\* rebuild before this one that completed, as <<n, event>>, when that
\* rebuild returned Ok.
\* pc: where rebuild stands.  "idle": not called; an event name or
\* "link_bins": that step has been called and has not returned; "done":
\* rebuild has returned ret.  rs: where the current run_scripts stands:
\* "call" (entered, set not locked yet), "stream" (try_for_each_concurrent
\* is being polled), "off" otherwise.
NewLinker(kind, conc, optional, pending, onStart, onLine) ==
    [ kind               |-> kind,
      script_concurrency |-> conc,
      on_script_start    |-> onStart,
      on_script_line     |-> onLine,
      optional           |-> optional,
      pending_rebuild    |-> pending,
      locked             |-> FALSE,
      ignore_scripts     |-> FALSE,
      pc                 |-> "idle",
      rs                 |-> "off",
      ret                |-> "none",
      err                |-> NoError,
      steps              |-> << >>,
      returned           |-> << >>,
      linked             |-> << >>,
      last               |-> << >>,
      mani               |-> [n \in Nodes |-> "unread"],
      started            |-> [n \in Nodes |-> 0],
      task               |-> [n \in Nodes |-> "unpolled"],
      joined             |-> [n \in Nodes |-> {}],
      detached           |-> {},
      stale              |-> FALSE,
      manifestReads      |-> {},
      spawned            |-> {},
      swallowed          |-> {},
      startCalls         |-> {},
      lineCalled         |-> FALSE,
      budget             |-> 1,
      calls              |-> 0,
      prior              |-> {} ]

\* ---- rebuild, lines 89-109 ----------------------------------------------
\* (mutant) the bins are linked after the install scripts
NextStep_LinkLate(step, ignore) ==
    CASE step = "preinstall"  -> IF ignore THEN "link_bins" ELSE "install"
      [] step = "install"     -> "link_bins"
      [] step = "link_bins"   -> IF ignore THEN "done" ELSE "postinstall"
      [] step = "postinstall" -> "done"

\* The step rebuild calls after `step` has returned Ok ("done": Ok(())).
NextStep(step, ignore) ==
    CASE step = "preinstall"  -> "link_bins"
      [] step = "link_bins"   -> IF ignore THEN "done" ELSE "install"
      [] step = "install"     -> "postinstall"
      [] step = "postinstall" -> "done"

\* rebuild calls `step`: run_scripts(graph, step) or link_bins(graph).
EnterStep(L, step) ==
    [L EXCEPT !.pc = step,
              !.steps = Append(@, step),
              !.rs = IF step \in Events THEN "call" ELSE "off",
              !.task = [n \in Nodes |-> "unpolled"],
              !.joined = [n \in Nodes |-> {}],
              !.mani = [n \in Nodes |-> "unread"],
              !.started = [n \in Nodes |-> 0],
              !.linked = << >>,
              !.stale = @ \/ (\E n \in Nodes : <<n, "script">> \in L.detached),
              !.detached = {},
              !.manifestReads = {}, !.spawned = {}, !.swallowed = {},
              !.startCalls = {}, !.lineCalled = FALSE]

\* The step rebuild is in returned Ok: go on with the next one, or return
\* Ok(()) after the last (line 108).
StepOk(L) ==
    LET next == NextStep(L.pc, L.ignore_scripts)
        M == [L EXCEPT !.returned = Append(@, <<L.pc, "Ok">>)]
    IN  IF next = "done"
        THEN [M EXCEPT !.pc = "done", !.rs = "off", !.ret = "Ok"]
        ELSE EnterStep(M, next)

\* (mutant) the error is kept and returned after the remaining steps
StepErr_GoOn(L, e) ==
    LET next == NextStep(L.pc, L.ignore_scripts)
        M == [L EXCEPT !.ret = "Err", !.err = e,
                       !.returned = Append(@, <<L.pc, "Err">>)]
    IN  IF next = "done" THEN [M EXCEPT !.pc = "done", !.rs = "off"]
        ELSE EnterStep(M, next)

\* The step rebuild is in returned Err(e): the `?` of lines 97-102 returns it.
StepErr(L, e) ==
    [L EXCEPT !.pc = "done", !.rs = "off", !.ret = "Err", !.err = e,
              !.returned = Append(@, <<L.pc, "Err">>)]

\* rebuild can be called when no rebuild is running; on a strategy linker
\* the caller does so budget times.
CanRebuild(L) ==
    L.pc = "idle" \/ (L.pc = "done" /\ (L.kind = "Null" \/ L.calls < L.budget))

\* the scripts of the current event whose drains and wait have all returned Ok
Completed(L) == {n \in L.spawned : L.joined[n] = Parts}

\* rebuild(graph, ignore_scripts) is called, lines 96-99.
rebuild(L, ignore) ==
    LET M == [L EXCEPT !.ignore_scripts = ignore, !.ret = "none", !.err = NoError,
                       !.steps = << >>, !.returned = << >>,
                       !.calls = IF @ < L.budget THEN @ + 1 ELSE @,
                       !.prior = IF L.pc = "done" /\ L.ret = "Ok" /\ L.steps # << >>
                                 THEN {<<n, L.steps[Len(L.steps)]>> : n \in Completed(L)}
                                 ELSE {}]
    IN  EnterStep(M, IF ignore THEN "link_bins" ELSE "preinstall")

\* ---- link_bins, lines 112-130 -------------------------------------------
CanLinkBins(L, ok, n) ==
    /\ L.pc = "link_bins"
    /\ L.kind = "Null" => (ok /\ n = 0)
    /\ ~ok => n = 0

\* link_bins returns: Null returns Ok(0), line 123; a strategy returns
\* Ok(n), the bins it linked, or an error, which the `?` of line 124 returns.
link_bins(L, ok, n) ==
    IF ok THEN StepOk([L EXCEPT !.linked = <<n>>])
    ELSE StepErr(L, [kind |-> "link_bins"])

\* ---- prune and extract, lines 61-86: the Null arm -----------------------
CanCall(L) == L.pc \in {"idle", "done"} /\ L.kind = "Null"

prune(L) == [L EXCEPT !.last = <<"prune", "Ok", 0>>]

extract(L) == [L EXCEPT !.last = <<"extract", "Ok", 0>>]

\* ---- run_scripts, lines 133-264 -----------------------------------------
\* (mutant) the stream yields a node again whose future has returned Ok
Remaining_Repeat(L) ==
    {n \in L.pending_rebuild : L.task[n] \in {"unpolled", "done"}}

\* elements the stream has not yielded yet: the iterator over the locked set
Remaining(L) == {n \in L.pending_rebuild : L.task[n] = "unpolled"}

\* futures held by try_for_each_concurrent
InFlight(L) == {n \in Nodes : L.task[n] \in {"spawning", "running"}}

\* (mutant) a limit of zero leaves no room
HasRoom_ZeroBlocks(L) == Cardinality(InFlight(L)) < L.script_concurrency

\* (mutant) one future more than the limit
HasRoom_OffByOne(L) ==
    L.script_concurrency = 0 \/ Cardinality(InFlight(L)) <= L.script_concurrency

\* try_for_each_concurrent(limit, ..): a limit of zero is no limit
HasRoom(L) ==
    L.script_concurrency = 0 \/ Cardinality(InFlight(L)) < L.script_concurrency

\* (mutant) the error is recorded and the stream goes on
Abort_KeepGoing(L, e) == [L EXCEPT !.ret = "Err", !.err = e]

\* try_for_each_concurrent returns Err(e): the futures it still holds are
\* dropped, which detaches their blocking tasks (a spawn under way still
\* spawns, a running script goes on); the `?` of line 258 returns e, the
\* guard of the pending set is dropped, and rebuild returns e.
Abort(L, e) ==
    LET left == {<<n, "spawn">> : n \in {m \in Nodes : L.task[m] = "spawning"}}
                \cup {<<n, "script">> : n \in {m \in Nodes : L.task[m] = "running"}}
        M == [L EXCEPT !.locked = FALSE,
                       !.detached = @ \cup left,
                       !.joined = [n \in Nodes |-> {}],
                       !.task = [n \in Nodes |->
                                    IF n \in InFlight(L) THEN "dropped" ELSE @[n]]]
    IN  StepErr(M, e)

CanRunScripts(L) == L.pc \in Events /\ L.rs = "call" /\ ~L.locked

\* (mutant) no arm for Null
run_scripts_NoNullArm(L) == [L EXCEPT !.locked = TRUE, !.rs = "stream"]

\* run_scripts is entered, lines 144-154: Null returns Ok(()); the others
\* lock the pending set and start the stream over it.
run_scripts(L) ==
    IF L.kind = "Null" THEN StepOk(L)
    ELSE [L EXCEPT !.locked = TRUE, !.rs = "stream"]

\* (mutant) a node waits for the pending nodes it depends on, as in the
\* run_scripts that is commented out
CanStartTask_DepOrdered(L, idx) ==
    /\ L.pc \in Events /\ L.rs = "stream" /\ idx \in Remaining(L) /\ HasRoom(L)
    /\ \A dep \in L.pending_rebuild :
           has_path_connecting(idx, dep) => L.task[dep] = "done"

\* The stream is polled for its next element while there is room, and the
\* closure is started for what it yields.
CanStartTask(L, idx) ==
    L.pc \in Events /\ L.rs = "stream" /\ idx \in Remaining(L) /\ HasRoom(L)

\* (mutant) the script is spawned inside `if let Some(on_script_start)`
start_task_SpawnInCallback(L, idx, mani) ==
    LET M == [L EXCEPT !.manifestReads = @ \cup {idx}, !.mani[idx] = mani,
                       !.started[idx] = @ + 1]
    IN  CASE mani = "unreadable" ->
               Abort([M EXCEPT !.task[idx] = "failed"],
                     [kind |-> "BuildManifestReadError", node |-> idx,
                      event |-> L.pc, path |-> manifest_path(L, idx)])
          [] mani = "none" -> [M EXCEPT !.task[idx] = "done"]
          [] mani = "script" ->
               IF L.on_script_start
               THEN [M EXCEPT !.task[idx] = "spawning", !.startCalls = @ \cup {idx}]
               ELSE [M EXCEPT !.task[idx] = "done"]

\* (mutant) an optional node's unreadable manifest is swallowed
start_task_SwallowManifest(L, idx, mani) ==
    LET M == [L EXCEPT !.manifestReads = @ \cup {idx}, !.mani[idx] = mani,
                       !.started[idx] = @ + 1]
    IN  CASE mani = "unreadable" ->
               IF is_optional(L, idx)
               THEN [M EXCEPT !.task[idx] = "done",
                              !.swallowed = @ \cup {<<idx, "manifest">>}]
               ELSE Abort([M EXCEPT !.task[idx] = "failed"],
                          [kind |-> "BuildManifestReadError", node |-> idx,
                           event |-> L.pc, path |-> manifest_path(L, idx)])
          [] mani = "none" -> [M EXCEPT !.task[idx] = "done"]
          [] mani = "script" ->
               [M EXCEPT !.task[idx] = "spawning",
                         !.startCalls = IF L.on_script_start
                                        THEN @ \cup {idx} ELSE @]

\* (mutant) on_script_start is invoked before the scripts are looked up
start_task_CallbackFirst(L, idx, mani) ==
    LET M == [L EXCEPT !.manifestReads = @ \cup {idx}, !.mani[idx] = mani,
                       !.started[idx] = @ + 1,
                       !.startCalls = IF L.on_script_start /\ mani # "unreadable"
                                      THEN @ \cup {idx} ELSE @]
    IN  CASE mani = "unreadable" ->
               Abort([M EXCEPT !.task[idx] = "failed"],
                     [kind |-> "BuildManifestReadError", node |-> idx,
                      event |-> L.pc, path |-> manifest_path(L, idx)])
          [] mani = "none" -> [M EXCEPT !.task[idx] = "done"]
          [] mani = "script" -> [M EXCEPT !.task[idx] = "spawning"]

\* The closure of line 156 starts for idx and runs to its first await,
\* lines 157-192.  mani is what BuildManifest::from_path finds:
\* "unreadable", "none" (no script for the event) or "script".
start_task(L, idx, mani) ==
    LET M == [L EXCEPT !.manifestReads = @ \cup {idx}, !.mani[idx] = mani,
                       !.started[idx] = @ + 1]
    IN  CASE mani = "unreadable" ->
               Abort([M EXCEPT !.task[idx] = "failed"],
                     [kind |-> "BuildManifestReadError", node |-> idx,
                      event |-> L.pc, path |-> manifest_path(L, idx)])
          [] mani = "none" -> [M EXCEPT !.task[idx] = "done"]
          [] mani = "script" ->
               [M EXCEPT !.task[idx] = "spawning",
                         !.startCalls = IF L.on_script_start
                                        THEN @ \cup {idx} ELSE @]

CanSpawn(L, idx) == L.pc \in Events /\ L.rs = "stream" /\ L.task[idx] = "spawning"

\* (mutant) no arm `Err(e) if is_optional`
spawn_returns_NoOptionalArm(L, idx, ok) ==
    IF ok
    THEN [L EXCEPT !.task[idx] = "running", !.spawned = @ \cup {idx}]
    ELSE Abort([L EXCEPT !.task[idx] = "failed"],
               [kind |-> "spawn", node |-> idx, event |-> L.pc])

\* OroScript::new(..).spawn() returns, lines 187-201.
spawn_returns(L, idx, ok) ==
    IF ok
    THEN [L EXCEPT !.task[idx] = "running",
                   !.spawned = @ \cup {idx}]
    ELSE IF is_optional(L, idx)
    THEN [L EXCEPT !.task[idx] = "done",
                   !.swallowed = @ \cup {<<idx, "spawn">>}]
    ELSE Abort([L EXCEPT !.task[idx] = "failed"],
               [kind |-> "spawn", node |-> idx, event |-> L.pc])

CanJoin(L, idx, part) ==
    /\ L.pc \in Events /\ L.rs = "stream"
    /\ L.task[idx] = "running" /\ part \notin L.joined[idx]

\* (mutant) no arm `Err(e) if is_optional`
part_returns_NoOptionalArm(L, idx, part, ok) ==
    LET M == [L EXCEPT !.lineCalled =
                 IF part # "wait" /\ L.on_script_line THEN TRUE ELSE @]
        now == L.joined[idx] \cup {part}
        D == IF now = Parts THEN M
             ELSE [M EXCEPT !.detached = @ \cup {<<idx, "script">>}]
    IN  IF ok
        THEN [M EXCEPT !.joined[idx] = now,
                       !.task[idx] = IF now = Parts THEN "done" ELSE @]
        ELSE Abort([D EXCEPT !.task[idx] = "failed"],
                   [kind |-> part, node |-> idx, event |-> L.pc])

\* One future of try_join! returns (the stdout drain, the stderr drain or
\* script.wait()), lines 211-253.  A drain hands every line it reads to
\* on_script_line, if there is one.  try_join! returns Err at the first Err,
\* while the other futures may still be running, and Ok when all three have
\* returned Ok.
part_returns(L, idx, part, ok) ==
    LET M == [L EXCEPT !.lineCalled =
                 IF part # "wait" /\ L.on_script_line THEN TRUE ELSE @]
        now == L.joined[idx] \cup {part}
        D == IF now = Parts THEN M
             ELSE [M EXCEPT !.detached = @ \cup {<<idx, "script">>}]
    IN  IF ok
        THEN [M EXCEPT !.joined[idx] = now,
                       !.task[idx] = IF now = Parts THEN "done" ELSE @]
        ELSE IF is_optional(L, idx)
        THEN [D EXCEPT !.task[idx] = "done", !.joined[idx] = {},
                       !.swallowed = @ \cup {<<idx, "script">>}]
        ELSE Abort([D EXCEPT !.task[idx] = "failed"],
                   [kind |-> part, node |-> idx, event |-> L.pc])

CanReturn(L) ==
    /\ L.pc \in Events /\ L.rs = "stream"
    /\ Remaining(L) = {} /\ InFlight(L) = {}

\* (mutant) the pending set is drained when the event has run
run_scripts_returns_Drain(L) ==
    StepOk([L EXCEPT !.locked = FALSE, !.pending_rebuild = {}])

\* The stream is exhausted and no future is left: try_for_each_concurrent
\* returns Ok, the guard is dropped, run_scripts returns Ok(()), lines 258-263.
run_scripts_returns(L) == StepOk([L EXCEPT !.locked = FALSE])

\* ---- blocking tasks whose future was dropped -----------------------------
CanDetachedSpawn(L, idx) == <<idx, "spawn">> \in L.detached

\* A detached spawn closure returns: the script it spawned is owned by nobody.
detached_spawn_returns(L, idx, ok) ==
    [L EXCEPT !.detached = (@ \ {<<idx, "spawn">>})
                           \cup (IF ok THEN {<<idx, "script">>} ELSE {}),
              !.spawned = IF ok THEN @ \cup {idx} ELSE @]

CanDetachedFinish(L, idx) == <<idx, "script">> \in L.detached

\* The last drain or wait of a detached script of idx returns.
detached_finishes(L, idx) ==
    [L EXCEPT !.detached = @ \ {<<idx, "script">>}]

CanStaleFinish(L) == L.stale

\* The last of the scripts left over from earlier steps ends.
stale_finishes(L) == [L EXCEPT !.stale = FALSE]

\* ---- supports_reflink, lines 437-476 -------------------------------------
\* The filesystem is the set of its entries: <<d>> a directory, <<d, x>> an
\* entry x of d, <<d, x, "b">> the file b of the directory <<d, x>>.
Dirs == 1 .. NumDirs
Names == 1 .. NumNames

\* pc: "idle", then the step that comes next ("tempfile", "write", "tempdir",
\* "reflink"), then "returned" with the bool in result.  temp, tempdir: the
\* paths owned by the NamedTempFile and the TempDir, << >> when there is none.
\* log: the steps attempted, each with whether it succeeded.  The
\* directories in `existing` exist, those in `old` hold an entry already.
NewProbe(existing, old) ==
    [ pc |-> "idle", src_dir |-> 0, dest_dir |-> 0,
      fs |-> {<<d>> : d \in existing} \cup {<<d, 1>> : d \in old}, before |-> {},
      temp |-> << >>, tempdir |-> << >>, log |-> << >>, result |-> FALSE ]

\* entry e is the directory dir or lies in it
Under(e, dir) == Len(e) >= Len(dir) /\ SubSeq(e, 1, Len(dir)) = dir

\* (mutant) the temporary directory is kept (TempDir::into_path)
Return_KeepDir(P, b) ==
    [P EXCEPT !.pc = "returned", !.result = b,
              !.fs = {e \in @ : e # P.temp},
              !.temp = << >>, !.tempdir = << >>]

\* `return b`: temp and tempdir go out of scope; dropping a NamedTempFile
\* removes its file, dropping a TempDir removes the directory and what is in
\* it (both removals are taken to succeed: the entries are the call's own).
Return(P, b) ==
    [P EXCEPT !.pc = "returned", !.result = b,
              !.fs = {e \in @ : /\ e # P.temp
                                /\ ~(P.tempdir # << >> /\ Under(e, P.tempdir))},
              !.temp = << >>, !.tempdir = << >>]

CanProbe(P) == P.pc = "idle"

\* supports_reflink(src_dir, dest_dir) is called.
supports_reflink(P, src, dest) ==
    [P EXCEPT !.pc = "tempfile", !.src_dir = src, !.dest_dir = dest,
              !.before = P.fs]

\* A new entry x can be made in directory d.
CanCreate(P, d, x) == <<d>> \in P.fs /\ <<d, x>> \notin P.fs

CanTempFile(P, ok, x) == P.pc = "tempfile" /\ (ok => CanCreate(P, P.src_dir, x))

\* NamedTempFile::new_in(src_dir), lines 438-444
new_tempfile(P, ok, x) ==
    LET Q == [P EXCEPT !.log = Append(@, <<"tempfile", ok>>)]
    IN  IF ok
        THEN [Q EXCEPT !.pc = "write", !.temp = <<P.src_dir, x>>,
                       !.fs = @ \cup {<<P.src_dir, x>>}]
        ELSE Return(Q, FALSE)

CanWrite(P) == P.pc = "write"

\* (mutant) the result of the write is ignored
write_temp_Ignored(P, ok) ==
    [P EXCEPT !.log = Append(@, <<"write", ok>>), !.pc = "tempdir"]

\* std::fs::write(&temp, "a"), lines 445-451
write_temp(P, ok) ==
    LET Q == [P EXCEPT !.log = Append(@, <<"write", ok>>)]
    IN  IF ok THEN [Q EXCEPT !.pc = "tempdir"] ELSE Return(Q, FALSE)

CanTempDir(P, ok, x) == P.pc = "tempdir" /\ (ok => CanCreate(P, P.dest_dir, x))

\* TempDir::new_in(dest_dir), lines 452-460
new_tempdir(P, ok, x) ==
    LET Q == [P EXCEPT !.log = Append(@, <<"tempdir", ok>>)]
    IN  IF ok
        THEN [Q EXCEPT !.pc = "reflink", !.tempdir = <<P.dest_dir, x>>,
                       !.fs = @ \cup {<<P.dest_dir, x>>}]
        ELSE Return(Q, FALSE)

CanReflink(P, ok, partial) == P.pc = "reflink" /\ (ok => ~partial)

\* reflink::reflink(temp.path(), tempdir.path().join("b")) and the return of
\* its outcome, lines 461-475.  A reflink that fails may have created "b"
\* already (partial).
reflink(P, ok, partial) ==
    LET Q == [P EXCEPT !.log = Append(@, <<"reflink", ok>>),
                       !.fs = IF ok \/ partial
                              THEN @ \cup {Append(P.tempdir, "b")} ELSE @]
    IN  Return(Q, ok)

\* ---- link_bin, lines 479-493 (the branch that is not windows) -----------
\* A path is the sequence of its components, from the root of the filesystem;
\* in a relative path 0 stands for "..".
ParentDir == 0
ExecMode == 493                      \* 0o755
Modes == {420, 384, ExecMode}        \* 0o644, 0o600, 0o755
BinPaths == UNION {[1 .. k -> Names] : k \in 2 .. 3}

\* to.parent()
parent(path) == SubSeq(path, 1, Len(path) - 1)

\* pathdiff::diff_paths(path, base) of two absolute paths: the common prefix
\* is left out, then one ".." for each component left of base, then what is
\* left of path.
RECURSIVE diff_paths(_, _)
diff_paths(path, base) ==
    IF path # << >> /\ base # << >> /\ Head(path) = Head(base)
    THEN diff_paths(Tail(path), Tail(base))
    ELSE [i \in 1 .. Len(base) |-> ParentDir] \o path

\* The path a link in directory dir with target rel stands for.
RECURSIVE resolve(_, _)
resolve(dir, rel) ==
    IF rel = << >> THEN dir
    ELSE IF Head(rel) = ParentDir
    THEN resolve(SubSeq(dir, 1, Len(dir) - 1), Tail(rel))
    ELSE resolve(Append(dir, Head(rel)), Tail(rel))

\* pc: "idle", then the call that comes next ("metadata", "set_permissions",
\* "symlink"), then "returned" with result "Ok" or "Err".  exists: the paths
\* `from` and `to` that exist; mode: the permission bits of `from`; perms:
\* the local perms; target: the target of the link made at `to`, << >> when
\* none was made; log: the calls made, each with whether it succeeded.
NewBin(from, to, exists, mode) ==
    [ pc |-> "idle", from |-> from, to |-> to, exists |-> exists,
      before |-> exists, mode |-> mode, perms |-> mode, target |-> << >>,
      result |-> "none", log |-> << >> ]

CanLinkBin(B) == B.pc = "idle"

\* link_bin(from, to) is called.
link_bin(B) == [B EXCEPT !.pc = "metadata"]

\* `?`: the error is returned
BinErr(B) == [B EXCEPT !.pc = "returned", !.result = "Err"]

CanMetadata(B, ok) == B.pc = "metadata" /\ (ok => B.from \in B.exists)

\* from.metadata()?, meta.permissions(), perms.set_mode(0o755), lines 485-487
metadata(B, ok) ==
    LET C == [B EXCEPT !.log = Append(@, <<"metadata", ok>>)]
    IN  IF ok THEN [C EXCEPT !.pc = "set_permissions", !.perms = ExecMode]
        ELSE BinErr(C)

CanSetPermissions(B, ok) == B.pc = "set_permissions" /\ (ok => B.from \in B.exists)

\* (mutant) the result of set_permissions is dropped
set_permissions_Ignored(B, ok) ==
    LET C == [B EXCEPT !.log = Append(@, <<"set_permissions", ok>>)]
    IN  [C EXCEPT !.pc = "symlink", !.mode = IF ok THEN B.perms ELSE @]

\* std::fs::set_permissions(from, perms)?, line 488
set_permissions(B, ok) ==
    LET C == [B EXCEPT !.log = Append(@, <<"set_permissions", ok>>)]
    IN  IF ok THEN [C EXCEPT !.pc = "symlink", !.mode = B.perms]
        ELSE BinErr(C)

\* the link can be made: nothing is at `to`, and the target is not empty
CanSymlink(B, ok) ==
    /\ B.pc = "symlink"
    /\ ok => (B.to \notin B.exists /\ diff_paths(B.from, parent(B.to)) # << >>)

\* relative = diff_paths(from, to.parent()), symlink(relative, to)?, Ok(()),
\* lines 489-492
symlink(B, ok) ==
    LET relative == diff_paths(B.from, parent(B.to))
        C == [B EXCEPT !.log = Append(@, <<"symlink", ok>>)]
    IN  IF ok
        THEN [C EXCEPT !.pc = "returned", !.result = "Ok",
                       !.exists = @ \cup {B.to}, !.target = relative]
        ELSE BinErr(C)

\* ---- prune on a tree of package directories, lines 61-72 ----------------
\* dirs: the package directories on disk; mapped: the directories that
\* package_dir maps a node of the graph to; before: dirs when prune was
\* called; count: the directories removed so far.  pc: "idle", "pruning" (the
\* strategy is removing), "returned" with ret "Ok" (and count) or "Err".
NewStore(kind, dirs, mapped) ==
    [ kind |-> kind, dirs |-> dirs, mapped |-> mapped, before |-> dirs,
      pc |-> "idle", ret |-> "none", count |-> 0 ]

\* the directories on disk that no node of the graph maps to
Stale(S) == S.dirs \ S.mapped

\* Isolated::prune / Hoisted::prune is called: it removes every stale directory.
strategy_prune(S) == [S EXCEPT !.pc = "pruning", !.before = S.dirs]

CanPrune(S) == S.pc = "idle"

\* (mutant) every linker prunes as Null does
Linker_prune_AsNull(S) ==
    [S EXCEPT !.pc = "returned", !.ret = "Ok", !.count = 0, !.before = S.dirs]

\* Linker::prune(graph) is called: Null returns Ok(0), the others hand over
\* to their strategy and return what it returns.
Linker_prune(S) ==
    IF S.kind = "Null"
    THEN [S EXCEPT !.pc = "returned", !.ret = "Ok", !.count = 0, !.before = S.dirs]
    ELSE strategy_prune(S)

CanRemoveDir(S, d) == S.pc = "pruning" /\ d \in Stale(S)

\* The strategy removes one stale directory entirely; a failure ends prune.
remove_dir(S, d, ok) ==
    IF ok THEN [S EXCEPT !.dirs = @ \ {d}, !.count = @ + 1]
    ELSE [S EXCEPT !.pc = "returned", !.ret = "Err"]

CanPruneReturn(S) == S.pc = "pruning" /\ Stale(S) = {}

\* Nothing stale is left: the strategy returns Ok(count), and so does prune.
prune_returns(S) == [S EXCEPT !.pc = "returned", !.ret = "Ok"]

\* ---- the state machine --------------------------------------------------
VARIABLES lk, twin, probe, bin, store
vars == <<lk, twin, probe, bin, store>>

\* twin takes the step lk takes, if its own guard allows it.
Lockstep(T, guard, next) == IF guard THEN next ELSE [T EXCEPT !.pc = "diverged"]

\* The linker as constructed, after the extraction that filled
\* pending_rebuild.  is_optional is asked of pending nodes only, so only they
\* are drawn optional.  lk has both callbacks, so that every invocation
\* shows in it; twin has none.
Init ==
    \E kind \in Kinds, conc \in 0 .. MaxConcurrency, pending \in SUBSET Nodes :
        \E optional \in SUBSET pending :
            /\ lk = NewLinker(kind, conc, optional, pending, TRUE, TRUE)
            /\ twin = NewLinker(kind, conc, optional, pending, FALSE, FALSE)
            /\ probe = NewProbe(Dirs, {})
            /\ bin = NewBin(<<1, 1>>, <<1, 1>>, {}, ExecMode)
            /\ store = NewStore("Null", {}, {})

Rebuild ==
    \E ignore \in BOOLEAN :
        /\ CanRebuild(lk)
        /\ lk' = rebuild(lk, ignore)
        /\ twin' = Lockstep(twin, CanRebuild(twin), rebuild(twin, ignore))
        /\ UNCHANGED <<probe, bin, store>>

LinkBins ==
    \E ok \in BOOLEAN, n \in 0 .. NumNodes :
        /\ CanLinkBins(lk, ok, n)
        /\ lk' = link_bins(lk, ok, n)
        /\ twin' = Lockstep(twin, CanLinkBins(twin, ok, n), link_bins(twin, ok, n))
        /\ UNCHANGED <<probe, bin, store>>

Prune ==
    /\ CanCall(lk)
    /\ lk' = prune(lk)
    /\ twin' = Lockstep(twin, CanCall(twin), prune(twin))
    /\ UNCHANGED <<probe, bin, store>>

Extract ==
    /\ CanCall(lk)
    /\ lk' = extract(lk)
    /\ twin' = Lockstep(twin, CanCall(twin), extract(twin))
    /\ UNCHANGED <<probe, bin, store>>

RunScripts ==
    /\ CanRunScripts(lk)
    /\ lk' = run_scripts(lk)
    /\ twin' = Lockstep(twin, CanRunScripts(twin), run_scripts(twin))
    /\ UNCHANGED <<probe, bin, store>>

StartTask ==
    \E idx \in Nodes, mani \in {"unreadable", "none", "script"} :
        /\ CanStartTask(lk, idx)
        /\ lk' = start_task(lk, idx, mani)
        /\ twin' = Lockstep(twin, CanStartTask(twin, idx), start_task(twin, idx, mani))
        /\ UNCHANGED <<probe, bin, store>>

SpawnReturns ==
    \E idx \in Nodes, ok \in BOOLEAN :
        /\ CanSpawn(lk, idx)
        /\ lk' = spawn_returns(lk, idx, ok)
        /\ twin' = Lockstep(twin, CanSpawn(twin, idx), spawn_returns(twin, idx, ok))
        /\ UNCHANGED <<probe, bin, store>>

PartReturns ==
    \E idx \in Nodes, part \in Parts, ok \in BOOLEAN :
        /\ CanJoin(lk, idx, part)
        /\ lk' = part_returns(lk, idx, part, ok)
        /\ twin' = Lockstep(twin, CanJoin(twin, idx, part),
                            part_returns(twin, idx, part, ok))
        /\ UNCHANGED <<probe, bin, store>>

RunScriptsReturns ==
    /\ CanReturn(lk)
    /\ lk' = run_scripts_returns(lk)
    /\ twin' = Lockstep(twin, CanReturn(twin), run_scripts_returns(twin))
    /\ UNCHANGED <<probe, bin, store>>

DetachedSpawnReturns ==
    \E idx \in Nodes, ok \in BOOLEAN :
        /\ CanDetachedSpawn(lk, idx)
        /\ lk' = detached_spawn_returns(lk, idx, ok)
        /\ twin' = Lockstep(twin, CanDetachedSpawn(twin, idx),
                            detached_spawn_returns(twin, idx, ok))
        /\ UNCHANGED <<probe, bin, store>>

DetachedFinishes ==
    \E idx \in Nodes :
        /\ CanDetachedFinish(lk, idx)
        /\ lk' = detached_finishes(lk, idx)
        /\ twin' = Lockstep(twin, CanDetachedFinish(twin, idx),
                            detached_finishes(twin, idx))
        /\ UNCHANGED <<probe, bin, store>>

StaleFinishes ==
    /\ CanStaleFinish(lk)
    /\ lk' = stale_finishes(lk)
    /\ twin' = Lockstep(twin, CanStaleFinish(twin), stale_finishes(twin))
    /\ UNCHANGED <<probe, bin, store>>

Next ==
    \/ Rebuild
    \/ RunScripts
    \/ StartTask
    \/ SpawnReturns
    \/ PartReturns
    \/ RunScriptsReturns
    \/ LinkBins
    \/ Prune
    \/ Extract
    \/ DetachedSpawnReturns
    \/ DetachedFinishes
    \/ StaleFinishes

Spec == Init /\ [][Next]_vars

\* ---- fair scheduling ---------------------------------------------------------
\* The executor polls run_scripts, the stream and the futures it holds
\* whenever they can go on; link_bins returns; a spawn returns; a spawned
\* script exits and closes its stdout and stderr, so its drains and its wait
\* return.
Fairness ==
    /\ WF_vars(RunScripts)
    /\ WF_vars(StartTask)
    /\ WF_vars(SpawnReturns)
    /\ WF_vars(PartReturns)
    /\ WF_vars(RunScriptsReturns)
    /\ WF_vars(LinkBins)

\* run_scripts treats the nodes alike but for the directory of the root, and
\* the two strategies alike but for package_dir: the pending nodes and the
\* optional ones are taken as the first nodes of the graph, on one strategy
\* linker and on the Null linker.
InitFair ==
    \E kind \in {"Isolated", "Null"}, conc \in 0 .. MaxConcurrency,
       k \in 0 .. NumNodes :
        \E j \in 0 .. k :
            /\ lk = NewLinker(kind, conc, 0 .. (j - 1), 0 .. (k - 1), TRUE, TRUE)
            /\ twin = NewLinker(kind, conc, 0 .. (j - 1), 0 .. (k - 1), FALSE, FALSE)
            /\ probe = NewProbe(Dirs, {})
            /\ bin = NewBin(<<1, 1>>, <<1, 1>>, {}, ExecMode)
            /\ store = NewStore("Null", {}, {})

SpecFair == InitFair /\ [][Next]_vars /\ Fairness

\* ---- a linker that is rebuilt twice ----------------------------------------
InitAgain ==
    \E kind \in Kinds, conc \in 0 .. MaxConcurrency, pending \in SUBSET Nodes :
        \E optional \in SUBSET pending :
            /\ lk = [NewLinker(kind, conc, optional, pending, TRUE, TRUE)
                        EXCEPT !.budget = 2]
            /\ twin = [NewLinker(kind, conc, optional, pending, FALSE, FALSE)
                          EXCEPT !.budget = 2]
            /\ probe = NewProbe(Dirs, {})
            /\ bin = NewBin(<<1, 1>>, <<1, 1>>, {}, ExecMode)
            /\ store = NewStore("Null", {}, {})

SpecAgain == InitAgain /\ [][Next]_vars

\* ---- the probe on its own -------------------------------------------------
InitProbe ==
    /\ lk = NewLinker("Null", 0, {}, {}, FALSE, FALSE)
    /\ twin = lk
    /\ \E existing \in SUBSET Dirs :
          \E old \in SUBSET existing : probe = NewProbe(existing, old)
    /\ bin = NewBin(<<1, 1>>, <<1, 1>>, {}, ExecMode)
    /\ store = NewStore("Null", {}, {})

SupportsReflink ==
    \E src \in Dirs, dest \in Dirs :
        /\ CanProbe(probe)
        /\ probe' = supports_reflink(probe, src, dest)
        /\ UNCHANGED <<lk, twin, bin, store>>

NewTempFile ==
    \E ok \in BOOLEAN, x \in Names :
        /\ CanTempFile(probe, ok, x)
        /\ probe' = new_tempfile(probe, ok, x)
        /\ UNCHANGED <<lk, twin, bin, store>>

WriteTemp ==
    \E ok \in BOOLEAN :
        /\ CanWrite(probe)
        /\ probe' = write_temp(probe, ok)
        /\ UNCHANGED <<lk, twin, bin, store>>

NewTempDir ==
    \E ok \in BOOLEAN, x \in Names :
        /\ CanTempDir(probe, ok, x)
        /\ probe' = new_tempdir(probe, ok, x)
        /\ UNCHANGED <<lk, twin, bin, store>>

Reflink ==
    \E ok \in BOOLEAN, partial \in BOOLEAN :
        /\ CanReflink(probe, ok, partial)
        /\ probe' = reflink(probe, ok, partial)
        /\ UNCHANGED <<lk, twin, bin, store>>

NextProbe ==
    \/ SupportsReflink
    \/ NewTempFile
    \/ WriteTemp
    \/ NewTempDir
    \/ Reflink

SpecProbe == InitProbe /\ [][NextProbe]_vars

\* ---- link_bin on its own ---------------------------------------------------
InitBin ==
    /\ lk = NewLinker("Null", 0, {}, {}, FALSE, FALSE)
    /\ twin = lk
    /\ probe = NewProbe(Dirs, {})
    /\ \E from \in BinPaths, to \in BinPaths, mode \in Modes :
          \E exists \in SUBSET {from, to} : bin = NewBin(from, to, exists, mode)
    /\ store = NewStore("Null", {}, {})

LinkBin ==
    /\ CanLinkBin(bin)
    /\ bin' = link_bin(bin)
    /\ UNCHANGED <<lk, twin, probe, store>>

Metadata ==
    \E ok \in BOOLEAN :
        /\ CanMetadata(bin, ok)
        /\ bin' = metadata(bin, ok)
        /\ UNCHANGED <<lk, twin, probe, store>>

SetPermissions ==
    \E ok \in BOOLEAN :
        /\ CanSetPermissions(bin, ok)
        /\ bin' = set_permissions(bin, ok)
        /\ UNCHANGED <<lk, twin, probe, store>>

Symlink ==
    \E ok \in BOOLEAN :
        /\ CanSymlink(bin, ok)
        /\ bin' = symlink(bin, ok)
        /\ UNCHANGED <<lk, twin, probe, store>>

NextBin ==
    \/ LinkBin
    \/ Metadata
    \/ SetPermissions
    \/ Symlink

SpecBin == InitBin /\ [][NextBin]_vars

\* ---- prune on its own -------------------------------------------------------
InitPrune ==
    /\ lk = NewLinker("Null", 0, {}, {}, FALSE, FALSE)
    /\ twin = lk
    /\ probe = NewProbe(Dirs, {})
    /\ bin = NewBin(<<1, 1>>, <<1, 1>>, {}, ExecMode)
    /\ \E kind \in Kinds, dirs \in SUBSET Dirs, mapped \in SUBSET Dirs :
          store = NewStore(kind, dirs, mapped)

PruneCall ==
    /\ CanPrune(store)
    /\ store' = Linker_prune(store)
    /\ UNCHANGED <<lk, twin, probe, bin>>

RemoveDir ==
    \E d \in Dirs, ok \in BOOLEAN :
        /\ CanRemoveDir(store, d)
        /\ store' = remove_dir(store, d, ok)
        /\ UNCHANGED <<lk, twin, probe, bin>>

PruneReturns ==
    /\ CanPruneReturn(store)
    /\ store' = prune_returns(store)
    /\ UNCHANGED <<lk, twin, probe, bin>>

NextPrune ==
    \/ PruneCall
    \/ RemoveDir
    \/ PruneReturns

SpecPrune == InitPrune /\ [][NextPrune]_vars

\* ==== the claims ==========================================================
IsPrefix(s, t) == Len(s) <= Len(t) /\ SubSeq(t, 1, Len(s)) = s

\* the steps of a rebuild that runs to its end
Order(ignore) ==
    IF ignore THEN <<"link_bins">>
    ELSE <<"preinstall", "link_bins", "install", "postinstall">>

LastStep(L) == L.steps[Len(L.steps)]

\* an error of spawning a script or of running it (a drain or the wait)
ScriptErrors == {"spawn"} \cup Parts

\* C1: rebuild(graph, false) calls preinstall, link_bins, install,
\* postinstall in this order, each after the one before has returned Ok;
\* rebuild(graph, true) calls link_bins alone, and run_scripts reads no
\* manifest, invokes no callback and spawns no script.
C1_RebuildOrder ==
    lk.pc # "idle" =>
        /\ lk.steps # << >>
        /\ IsPrefix(lk.steps, Order(lk.ignore_scripts))
        /\ Len(lk.returned) \in {Len(lk.steps) - 1, Len(lk.steps)}
        /\ \A i \in 1 .. (Len(lk.steps) - 1) : lk.returned[i] = <<lk.steps[i], "Ok">>
        /\ lk.pc # "done" => (LastStep(lk) = lk.pc /\ Len(lk.returned) = Len(lk.steps) - 1)
        /\ (lk.pc = "done" /\ lk.ret = "Ok") =>
               (lk.steps = Order(lk.ignore_scripts) /\ Len(lk.returned) = Len(lk.steps))
        /\ lk.ignore_scripts =>
               /\ lk.manifestReads = {} /\ lk.spawned = {} /\ lk.startCalls = {}
               /\ lk.detached = {} /\ ~lk.lineCalled
               /\ \A n \in Nodes : lk.task[n] = "unpolled" /\ lk.mani[n] = "unread"

\* a rebuild of a strategy linker with scripts has run all four steps and has
\* spawned a postinstall script
C1_Witness ==
    /\ lk.kind # "Null" /\ ~lk.ignore_scripts
    /\ lk.pc = "done" /\ lk.ret = "Ok"
    /\ lk.steps = <<"preinstall", "link_bins", "install", "postinstall">>
    /\ lk.spawned # {}

\* C2: when a step of rebuild returns an error, rebuild returns that error
\* and has called no step after the failing one.
C2_FailureAborts ==
    lk.ret = "Err" =>
        LET failing == IF lk.err.kind = "link_bins" THEN "link_bins" ELSE lk.err.event
        IN  /\ lk.pc = "done" /\ lk.rs = "off"
            /\ lk.steps # << >> /\ LastStep(lk) = failing
            /\ IsPrefix(lk.steps, Order(lk.ignore_scripts))
            /\ Len(lk.returned) = Len(lk.steps)
            /\ lk.returned[Len(lk.returned)] = <<failing, "Err">>
            /\ failing = "preinstall" => lk.linked = << >>

\* an install script of a required node exits with a failure: no postinstall
C2_Witness ==
    /\ lk.ret = "Err" /\ lk.err.kind = "wait" /\ lk.err.event = "install"
    /\ lk.steps = <<"preinstall", "link_bins", "install">>

\* C3: a failure to spawn or to run the script of an optional node is
\* swallowed: the node's future returns Ok, and the error rebuild returns,
\* if any, is not that failure.
C3_OptionalSwallowed ==
    /\ \A s \in lk.swallowed :
           /\ s[1] \in lk.optional /\ lk.mani[s[1]] = "script"
           /\ lk.task[s[1]] = "done"
    /\ (lk.ret = "Err" /\ lk.err.kind \in ScriptErrors) =>
           /\ lk.err.node \notin lk.optional
           /\ lk.err.node \notin {s[1] : s \in lk.swallowed}

\* rebuild has returned Ok although the postinstall script of an optional
\* node failed, and the script of a required node has run
C3_Witness ==
    /\ lk.pc = "done" /\ lk.ret = "Ok"
    /\ lk.steps = <<"preinstall", "link_bins", "install", "postinstall">>
    /\ \E a \in lk.optional, b \in Nodes \ lk.optional :
           /\ <<a, "script">> \in lk.swallowed
           /\ b \in lk.spawned /\ lk.joined[b] = Parts

\* C4 (state part): a node that is not optional is never swallowed, and when
\* its future has returned an error rebuild has returned that error.
C4_Propagated ==
    /\ \A s \in lk.swallowed : s[1] \in lk.optional
    /\ \A n \in Nodes :
           lk.task[n] = "failed" =>
               /\ lk.pc = "done" /\ lk.ret = "Err" /\ lk.err.node = n
               /\ lk.err.event = LastStep(lk)
               /\ ~lk.locked

\* C4 (step part): once the error has been returned no further node is
\* started: no manifest is read, no callback invoked, and the only scripts
\* spawned are those whose spawn was under way.
C4_NothingStarted ==
    lk.ret = "Err" =>
        /\ lk'.manifestReads = lk.manifestReads
        /\ lk'.startCalls = lk.startCalls
        /\ lk'.task = lk.task
        /\ (lk'.spawned \ lk.spawned) \subseteq {n \in Nodes : <<n, "spawn">> \in lk.detached}

\* C4: a failure of a node that is not optional is returned by run_scripts,
\* and afterwards no node that had not been started is started.
C4_NonOptionalAborts == [](C4_Propagated) /\ [][C4_NothingStarted]_vars

\* the script of a required node failed while a pending node was waiting
C4_Witness ==
    /\ lk.ret = "Err" /\ lk.err.kind \in ScriptErrors
    /\ lk.err.node \notin lk.optional
    /\ \E m \in lk.pending_rebuild : lk.task[m] = "unpolled"

\* C5 as claimed: at most script_concurrency node futures are in flight, for
\* every value of script_concurrency.
C5_AsClaimed == Cardinality(InFlight(lk)) <= lk.script_concurrency

\* C5: when script_concurrency is at least 1, at most script_concurrency node
\* futures are in flight (a script_concurrency of 0 sets no limit).
C5_BoundedUnlessZero ==
    lk.script_concurrency >= 1 =>
        Cardinality(InFlight(lk)) <= lk.script_concurrency

\* the limit holds a pending node back
C5_Witness ==
    /\ lk.script_concurrency >= 1
    /\ Cardinality(InFlight(lk)) = lk.script_concurrency
    /\ lk.rs = "stream" /\ Remaining(lk) # {}

\* What two runs are compared on: everything but the callbacks and the
\* record of their invocations.
Observable(L) ==
    [ pc |-> L.pc, rs |-> L.rs, ret |-> L.ret, err |-> L.err, steps |-> L.steps,
      task |-> L.task, joined |-> L.joined, detached |-> L.detached,
      stale |-> L.stale, returned |-> L.returned, linked |-> L.linked,
      last |-> L.last, mani |-> L.mani, started |-> L.started,
      locked |-> L.locked, pending_rebuild |-> L.pending_rebuild,
      manifestReads |-> L.manifestReads, spawned |-> L.spawned,
      swallowed |-> L.swallowed ]

\* C6: the run with both callbacks and the run with none, on the same
\* schedule and the same outcomes, agree on everything but the callbacks.
C6_CallbacksObservational == Observable(lk) = Observable(twin)

\* on_script_start and on_script_line have been invoked in the one run and
\* not in the other, and rebuild has returned
C6_Witness ==
    /\ lk.startCalls # {} /\ lk.lineCalled
    /\ twin.startCalls = {} /\ ~twin.lineCalled
    /\ lk.pc = "done" /\ twin.pc = "done"

\* C7: on the Null linker prune, extract and link_bins return Ok(0),
\* run_scripts and rebuild return Ok(()), and nothing is locked, read,
\* spawned or called back.
C7_NullNoOp ==
    lk.kind = "Null" =>
        /\ lk.ret \in {"none", "Ok"} /\ lk.err = NoError
        /\ \A i \in 1 .. Len(lk.returned) : lk.returned[i] = <<lk.steps[i], "Ok">>
        /\ lk.linked \in {<< >>, <<0>>}
        /\ lk.last \in {<< >>, <<"prune", "Ok", 0>>, <<"extract", "Ok", 0>>}
        /\ lk.pc = "done" => lk.ret = "Ok"
        /\ ~lk.locked /\ ~lk.stale /\ lk.detached = {}
        /\ lk.manifestReads = {} /\ lk.spawned = {}
        /\ lk.startCalls = {} /\ ~lk.lineCalled
        /\ \A n \in Nodes : lk.task[n] = "unpolled" /\ lk.mani[n] = "unread"

\* a Null linker with pending nodes has returned from a rebuild with scripts
\* and from an extract
C7_Witness ==
    /\ lk.kind = "Null" /\ lk.pending_rebuild # {}
    /\ lk.pc = "done" /\ lk.ret = "Ok" /\ ~lk.ignore_scripts
    /\ Len(lk.returned) = Len(Order(FALSE))
    /\ lk.last = <<"extract", "Ok", 0>>

\* C8: a pending node whose manifest cannot be read makes run_scripts return
\* BuildManifestReadError with the path of that manifest, optional or not;
\* nothing is spawned for it.
C8_ManifestErrorFatal ==
    \A n \in Nodes :
        lk.mani[n] = "unreadable" =>
            /\ lk.pc = "done" /\ lk.ret = "Err"
            /\ lk.err = [kind |-> "BuildManifestReadError", node |-> n,
                         event |-> LastStep(lk), path |-> manifest_path(lk, n)]
            /\ lk.task[n] = "failed"
            /\ n \notin lk.spawned /\ n \notin lk.startCalls
            /\ \A s \in lk.swallowed : s[1] # n

\* the manifest of an optional node could not be read
C8_Witness ==
    \E n \in lk.optional :
        /\ lk.mani[n] = "unreadable" /\ lk.ret = "Err"
        /\ n # GraphRoot

\* C9 as claimed: no failure of an optional node, the read of its manifest
\* included, makes run_scripts return an error.
C9_AsClaimed ==
    (lk.ret = "Err" /\ lk.err.kind # "link_bins") => lk.err.node \notin lk.optional

\* C9: a failure of an optional node to spawn, drain or wait is swallowed;
\* the only error of an optional node that run_scripts returns is the
\* failure to read its manifest.
C9_SwallowedButManifest ==
    \A n \in lk.optional :
        /\ (lk.ret = "Err" /\ lk.err.kind # "link_bins" /\ lk.err.node = n) =>
               (lk.err.kind = "BuildManifestReadError" /\ lk.mani[n] = "unreadable")
        /\ lk.task[n] = "failed" => lk.mani[n] = "unreadable"
        /\ (lk.mani[n] = "script" /\ lk.pc \in Events) =>
               lk.task[n] \in {"spawning", "running", "done"}

\* the spawn of one optional node and the script of another have failed and
\* run_scripts goes on
C9_Witness ==
    \E a \in lk.optional, b \in lk.optional :
        /\ <<a, "spawn">> \in lk.swallowed /\ <<b, "script">> \in lk.swallowed
        /\ lk.pc = "done" /\ lk.ret = "Ok"

\* C10: supports_reflink returns a bool; it returns true exactly when the
\* four steps have all succeeded, and no step is attempted after a failure.
C10_ProbeResult ==
    LET names == <<"tempfile", "write", "tempdir", "reflink">>
    IN  /\ Len(probe.log) <= 4
        /\ \A i \in 1 .. Len(probe.log) : probe.log[i][1] = names[i]
        /\ \A i \in 1 .. (Len(probe.log) - 1) : probe.log[i][2]
        /\ probe.pc = "returned" =>
               /\ probe.result \in BOOLEAN
               /\ probe.log # << >>
               /\ probe.result <=> (Len(probe.log) = 4 /\ probe.log[4][2])
               /\ ~probe.result => ~probe.log[Len(probe.log)][2]

\* the write failed: false, and neither a directory nor a clone was tried
C10_Witness ==
    /\ probe.pc = "returned" /\ ~probe.result
    /\ probe.log = <<<<"tempfile", TRUE>>, <<"write", FALSE>>>>

\* C11: when supports_reflink has returned, on every path, the filesystem
\* holds the entries it held before the call: the temporary file, the
\* temporary directory and the clone in it are gone.  Until then the only
\* entries it has added are these.
C11_NoResidue ==
    /\ probe.pc = "returned" =>
           /\ probe.fs = probe.before
           /\ probe.temp = << >> /\ probe.tempdir = << >>
    /\ probe.pc \in {"write", "tempdir", "reflink"} =>
           /\ probe.before \subseteq probe.fs
           /\ \A e \in probe.fs \ probe.before :
                  \/ e = probe.temp
                  \/ probe.tempdir # << >> /\ Under(e, probe.tempdir)

\* the clone was made, in a directory that held an entry before, and all
\* that is left is what was there before
C11_Witness ==
    /\ probe.pc = "returned" /\ probe.result
    /\ probe.log = <<<<"tempfile", TRUE>>, <<"write", TRUE>>,
                     <<"tempdir", TRUE>>, <<"reflink", TRUE>>>>
    /\ probe.fs = probe.before /\ <<probe.dest_dir, 1>> \in probe.fs

\* C12: link_bin returns Err when the metadata of `from` cannot be read, when
\* its permission bits cannot be written or when the link cannot be made (so
\* when something is at `to` already), and makes no call after the one that
\* failed; it returns Ok only when `from` has mode 0o755 and the link at `to`
\* has as target the path of `from` relative to the parent of `to`.
C12_LinkBinResult ==
    LET names == <<"metadata", "set_permissions", "symlink">>
    IN  /\ Len(bin.log) <= 3
        /\ \A i \in 1 .. Len(bin.log) : bin.log[i][1] = names[i]
        /\ \A i \in 1 .. (Len(bin.log) - 1) : bin.log[i][2]
        /\ (bin.log # << >> /\ ~bin.log[Len(bin.log)][2]) =>
               (bin.pc = "returned" /\ bin.result = "Err")
        /\ bin.pc = "returned" =>
               /\ bin.result \in {"Ok", "Err"}
               /\ bin.result = "Ok" <=> (Len(bin.log) = 3 /\ bin.log[3][2])
               /\ bin.from \notin bin.before => (bin.result = "Err" /\ Len(bin.log) = 1)
               /\ bin.to \in bin.before => bin.result = "Err"
               /\ bin.result = "Err" => (bin.target = << >> /\ bin.exists = bin.before)
               /\ bin.result = "Ok" =>
                      /\ bin.mode = ExecMode
                      /\ bin.to \in bin.exists /\ bin.to \notin bin.before
                      /\ bin.target = diff_paths(bin.from, parent(bin.to))
                      /\ resolve(parent(bin.to), bin.target) = bin.from

\* a file that was not executable has been linked from another directory
C12_Witness ==
    /\ bin.pc = "returned" /\ bin.result = "Ok"
    /\ bin.target = <<ParentDir, 2, 1>>
    /\ bin.mode = ExecMode /\ bin.log[2] = <<"set_permissions", TRUE>>
    /\ parent(bin.to) # parent(bin.from)

\* C13: after a prune of a strategy linker that returned Ok, a package
\* directory that was on disk before the call is still there exactly when a
\* node of the graph maps to it, nothing else is on disk, and the value
\* returned is the number of directories removed.
C13_PruneCorrect ==
    (store.pc = "returned" /\ store.ret = "Ok" /\ store.kind # "Null") =>
        /\ \A D \in store.before : D \in store.dirs <=> D \in store.mapped
        /\ store.dirs \subseteq store.before
        /\ store.count = Cardinality(store.before \ store.dirs)

\* a prune has removed one directory and kept another
C13_Witness ==
    /\ store.pc = "returned" /\ store.ret = "Ok" /\ store.kind = "Hoisted"
    /\ store.count = 1 /\ store.dirs # {}

\* C14: when run_scripts has returned Ok for an event, no script spawned for
\* that event is still running: none is while a later step of rebuild runs
\* (stale), and none is when rebuild has returned Ok.
C14_EventsSequenced ==
    /\ ~lk.stale
    /\ (lk.pc = "done" /\ lk.ret = "Ok") =>
           \A n \in Nodes : <<n, "script">> \notin lk.detached

\* C15: the future of a node whose script was spawned has returned (Ok or
\* Err) only when the two drains and the wait of the script have all returned.
C15_AllThreeJoined ==
    \A n \in Nodes :
        lk.task[n] \in {"done", "failed"} => <<n, "script">> \notin lk.detached

\* C16: run_scripts has released the lock of the pending set before it reads
\* a manifest, spawns a process or drains output: while the lock is held no
\* manifest has been read, nothing has been spawned and no node's future is
\* waiting.
C16_SnapshotThenRelease ==
    lk.locked =>
        /\ InFlight(lk) = {}
        /\ lk.manifestReads = {} /\ lk.spawned = {}

\* C17: for a pending node whose manifest was read and declares no script
\* for the event, on_script_start is not invoked, nothing is spawned, nothing
\* is swallowed, and the node's future has returned Ok, optional or not.
C17_NoScriptNoWork ==
    \A n \in Nodes :
        lk.mani[n] = "none" =>
            /\ lk.task[n] = "done" /\ lk.joined[n] = {}
            /\ n \notin lk.startCalls /\ n \notin lk.spawned
            /\ \A k \in {"spawn", "script"} :
                   <<n, k>> \notin lk.swallowed /\ <<n, k>> \notin lk.detached
            /\ lk.ret = "Err" => lk.err.node # n

\* an optional node and a required node without a postinstall script, and
\* rebuild has returned Ok
C17_Witness ==
    /\ lk.pc = "done" /\ lk.ret = "Ok" /\ LastStep(lk) = "postinstall"
    /\ \E a \in lk.optional, b \in lk.pending_rebuild \ lk.optional :
           lk.mani[a] = "none" /\ lk.mani[b] = "none"

\* C18: in one run_scripts the closure is started at most once for a node,
\* and only for nodes of the pending set; manifests are read, callbacks
\* invoked and scripts spawned only for nodes it was started for.
C18_OncePerPendingNode ==
    \A n \in Nodes :
        /\ lk.started[n] <= 1
        /\ lk.started[n] = 1 <=> lk.task[n] # "unpolled"
        /\ lk.started[n] = 1 => n \in lk.pending_rebuild
        /\ (n \in lk.manifestReads \/ n \in lk.startCalls \/ n \in lk.spawned)
               => lk.started[n] = 1

\* every pending node has been started, one of them concurrently with the
\* other, and a node that is not pending has not
C18_Witness ==
    /\ lk.pending_rebuild # {} /\ lk.pending_rebuild # Nodes
    /\ \A n \in lk.pending_rebuild : lk.started[n] = 1 /\ n \in lk.spawned
    /\ lk.pc = "done" /\ lk.ret = "Ok"

\* C19: in a rebuild called after a rebuild that returned Ok, no script is
\* spawned that completed in that earlier rebuild.
C19_NotRunAgain ==
    \A n \in lk.spawned : <<n, LastStep(lk)>> \notin lk.prior

\* C20: run_scripts imposes no order among pending nodes: while the stream is
\* polled, a pending node that has not been started can be started as soon
\* as fewer than script_concurrency futures are in flight (or there is no
\* limit), whatever the state of the nodes it depends on.
C20_NoDependencyOrder ==
    \A b \in lk.pending_rebuild :
        ( /\ lk.pc \in Events /\ lk.rs = "stream"
          /\ lk.task[b] = "unpolled"
          /\ \/ lk.script_concurrency = 0
             \/ Cardinality(InFlight(lk)) < lk.script_concurrency )
        => CanStartTask(lk, b)

\* with script_concurrency 2, the script of a node and the script of a
\* pending node it depends on are running at the same time
C20_Witness ==
    /\ lk.script_concurrency >= 2
    /\ \E a \in lk.pending_rebuild, b \in lk.pending_rebuild :
           /\ has_path_connecting(b, a)
           /\ lk.task[a] = "running" /\ lk.task[b] = "running"
           /\ {a, b} \subseteq lk.spawned
           /\ lk.joined[a] = {} /\ lk.joined[b] = {}

\* C21 (step part): no step of rebuild or run_scripts adds a node to the
\* pending set or removes one from it.
C21_SetUntouched == lk'.pending_rebuild = lk.pending_rebuild

\* C21 (state part): when the stream of an event is exhausted, the closure
\* has been started for every node of the pending set, and for no other.
C21_WholeSetIterated ==
    CanReturn(lk) => {n \in Nodes : lk.started[n] = 1} = lk.pending_rebuild

\* C21: run_scripts and rebuild leave the pending set as it was, on success
\* and on failure, so each of the three passes of a rebuild iterates the
\* same nodes.
C21_PendingSetUnchanged == [](C21_WholeSetIterated) /\ [][C21_SetUntouched]_vars

\* the third pass of a rebuild has read the manifest of every node of a
\* pending set that is not empty, and rebuild has returned Ok
C21_Witness ==
    /\ lk.pc = "done" /\ lk.ret = "Ok" /\ LastStep(lk) = "postinstall"
    /\ lk.kind # "Null" /\ lk.pending_rebuild # {}
    /\ lk.manifestReads = lk.pending_rebuild

\* C22 (state part): no state of run_scripts is a deadlock: the lock is free
\* when run_scripts asks for it, and while the stream is polled a node can be
\* started, a spawn or a future of try_join! can return, or the stream can end.
C22_NoDeadlock ==
    /\ (lk.pc \in Events /\ lk.rs = "call") => CanRunScripts(lk)
    /\ (lk.pc \in Events /\ lk.rs = "stream") =>
           \/ \E idx \in Nodes : CanStartTask(lk, idx)
           \/ \E idx \in Nodes : CanSpawn(lk, idx)
           \/ \E idx \in Nodes, part \in Parts : CanJoin(lk, idx, part)
           \/ CanReturn(lk)
    /\ lk.pc \in Events => lk.rs \in {"call", "stream"}
    /\ lk.pc \in {"idle", "done", "link_bins"} => ~lk.locked

\* C22: under fair scheduling, with link_bins returning and every spawned
\* script exiting and closing its output, a rebuild that has been called
\* returns, and no state of run_scripts is a deadlock.
C22_RebuildReturns ==
    /\ [](C22_NoDeadlock)
    /\ (lk.pc \notin {"idle", "done"}) ~> (lk.pc = "done")

\* with one slot, the postinstall scripts of two nodes have run one after the
\* other and rebuild has returned
C22_Witness ==
    /\ lk.pc = "done" /\ lk.ret = "Ok" /\ LastStep(lk) = "postinstall"
    /\ lk.script_concurrency = 1
    /\ Cardinality(lk.pending_rebuild) >= 2
    /\ lk.spawned = lk.pending_rebuild

====
